---- MODULE Spec2Model ----
(***************************************************************************)
(* Sketch-Contrast: the WCAG AA contrast rating of text layers             *)
(* (src/src/commands.js, with the colour helpers of lib/util in            *)
(* src/unnamed/part_000) and the report commands that drive it.            *)
(*                                                                         *)
(* Numbers.  JavaScript doubles are modelled in fixed point, inside 32-bit *)
(* integers:                                                               *)
(*   - a colour component of the host (red(), redComponent(), ...) is a    *)
(*     value in thousandths, 0..1000;                                      *)
(*   - an {r,g,b,a} channel is an integer 0..255; a blended channel is     *)
(*     kept exactly, as a multiple of 1/255000;                            *)
(*   - sRGB fractions, linearised channels and luminance are in            *)
(*     ten-thousandths (truncated);                                        *)
(*   - a contrast ratio is in thousandths (truncated): 21000 is 21:1;      *)
(*   - an opacity is in thousandths; a point size is in millionths of a    *)
(*     point.                                                              *)
(***************************************************************************)
EXTENDS Integers, Sequences, FiniteSets, TLC

VARIABLES
  textLayer,       \* the MSTextLayer handed to getTypeContrastRating
  opacity,         \* its effective opacity, in thousandths
  rectangle,       \* its rectangle {x, y, w, h} in raster coordinates
  bitmapImageRep,  \* the rasterised background
  rating,          \* what getTypeContrastRating returned and did
  pc,              \* "ready" before the call, "rated" after it
  page,            \* context.document.currentPage(): its top-level layers
  cmd              \* what the last command did

vars == <<textLayer, opacity, rectangle, bitmapImageRep, rating, pc, page, cmd>>
ratingVars == <<textLayer, opacity, rectangle, bitmapImageRep, rating, pc>>
pageVars == <<page, cmd>>

(***************************************************************************)
(* Bounds of the model.                                                    *)
(***************************************************************************)
RasterW == 2
RasterH == 2
MaxSide == 2
MaxParents == 2
MaxLayers == 2
MaxArtboards == 2

(***************************************************************************)
(* Host colours (MSColor / NSColor), components in thousandths.            *)
(***************************************************************************)
MSColorOf(r, g, b, a) == [red |-> r, green |-> g, blue |-> b, alpha |-> a]

White == MSColorOf(1000, 1000, 1000, 1000)
Black == MSColorOf(0, 0, 0, 1000)
Grey136 == MSColorOf(533, 533, 533, 1000)
Grey109 == MSColorOf(427, 427, 427, 1000)
Dark36 == MSColorOf(141, 141, 141, 1000)
HalfBlack == MSColorOf(0, 0, 0, 500)

\* Math.round(255 * c) for a component c in thousandths (halves round up)
Round255(c) == (255 * c + 500) \div 1000

Min(a, b) == IF a < b THEN a ELSE b
Max(a, b) == IF a > b THEN a ELSE b

(***************************************************************************)
(* lib/util: mixColors and srgbLuminance.                                  *)
(***************************************************************************)
\* The amount is kept as the exact fraction p = amount / 100 =
\* amountNum / ChannelDen (an amount of 0 gives p = 0; the "|| 50" default
\* is for an absent or NaN amount, which no caller of this repository
\* passes).  The channels of the result are multiples of 1 / ChannelDen.
ChannelDen == 255000

\* An {r, g, b} colour of integer channels, in the units of a mixed colour
Channels(c) ==
  [r |-> c.r * ChannelDen, g |-> c.g * ChannelDen, b |-> c.b * ChannelDen]

\* mixColors with its two colours taken in the wrong order
mixColors_Swapped(c1, c2, amountNum) ==
  [r |-> (c1.r - c2.r) * amountNum + c2.r * ChannelDen,
   g |-> (c1.g - c2.g) * amountNum + c2.g * ChannelDen,
   b |-> (c1.b - c2.b) * amountNum + c2.b * ChannelDen]

mixColors(c1, c2, amountNum) ==
  [r |-> (c2.r - c1.r) * amountNum + c1.r * ChannelDen,
   g |-> (c2.g - c1.g) * amountNum + c1.g * ChannelDen,
   b |-> (c2.b - c1.b) * amountNum + c1.b * ChannelDen]

\* r^5 for r in ten-thousandths
Pow2(r) == (r * r) \div 10000
Pow3(r) == (Pow2(r) * r) \div 10000
Pow4(r) == (Pow3(r) * r) \div 10000
Pow5(r) == (Pow4(r) * r) \div 10000

RECURSIVE Root5Search(_, _, _)
Root5Search(v, lo, hi) ==
  IF lo >= hi THEN lo
  ELSE LET mid == (lo + hi + 1) \div 2
       IN IF Pow5(mid) <= v THEN Root5Search(v, mid, hi)
          ELSE Root5Search(v, lo, mid - 1)

\* v^(1/5) for v in ten-thousandths
Root5(v) == Root5Search(v, 0, 10000)

\* One channel of srgbLuminance: c / 255, then the WCAG linearisation.
\* num is the channel as a multiple of 1 / ChannelDen.
Linearize(num) ==
  LET sRGB == (2 * num) \div 13005      \* num / 255000 / 255, in 1/10000
  IN IF sRGB <= 392                      \* <= 0.03928
     THEN (sRGB * 100) \div 1292         \* / 12.92
     ELSE LET u == ((sRGB + 550) * 1000) \div 1055   \* (x + 0.055) / 1.055
              u2 == (u * u) \div 10000
          IN (u2 * Root5(u2)) \div 10000 \* u^2.4 = u^2 * (u^2)^(1/5)

srgbLuminance(c) ==
  (2126 * Linearize(c.r) + 7152 * Linearize(c.g) + 722 * Linearize(c.b)) \div 10000

(***************************************************************************)
(* JavaScript values of the rating's contrastRatio field: a number (in     *)
(* thousandths) or a string.                                               *)
(***************************************************************************)
Num(n) == [type |-> "number", num |-> n, str |-> ""]
Str(t) == [type |-> "string", num |-> 0, str |-> t]

\* Infinity of line 229, as far as Math.min sees it: above every ratio
Infinity == 2147483647

(***************************************************************************)
(* The host's raster (NSBitmapImageRep).  An image is w x h pixels, its    *)
(* pixels given by its kind; colorAtX_y_ answers nil (<<>>) outside it.    *)
(***************************************************************************)
PixelColor(img, x, y) ==
  CASE img.kind = "white" -> White
    [] img.kind = "columns" -> IF x = 0 THEN White ELSE Black
    [] img.kind = "rows" -> IF y = 0 THEN Grey109 ELSE White

colorAtX_y_(img, x, y) ==
  IF x >= 0 /\ x < img.w /\ y >= 0 /\ y < img.h
  THEN <<PixelColor(img, x, y)>>
  ELSE <<>>

(***************************************************************************)
(* commands.js: formatContrastRatio                                        *)
(***************************************************************************)
\* Number.prototype.toFixed(2) of a ratio in thousandths
ToFixed2(n) ==
  LET h == (n + 5) \div 10
  IN ToString(h \div 100) \o "." \o (IF h % 100 < 10 THEN "0" ELSE "")
       \o ToString(h % 100)

\* isNaN(v): of the values the rating produces, the string 'NA' is not a number
isNaN(v) == v.type = "string"

\* formatContrastRatio without the ':1' suffix
formatContrastRatio_NoSuffix(contrastRatio) ==
  IF isNaN(contrastRatio) THEN "NA" ELSE ToFixed2(contrastRatio.num)

formatContrastRatio(contrastRatio) ==
  IF isNaN(contrastRatio) THEN "NA" ELSE ToFixed2(contrastRatio.num) \o ":1"

(***************************************************************************)
(* commands.js: getTypeContrastRating                                      *)
(***************************************************************************)
\* samplePoints with the geometric bottom-right corner as fourth point
samplePoints_BottomRight(rect) ==
  << <<rect.x, rect.y>>,
     <<rect.x + rect.w - 1, rect.y>>,
     <<rect.x, rect.y + rect.h - 1>>,
     <<rect.x + rect.w - 1, rect.y + rect.h - 1>> >>

samplePoints(rect) ==
  << <<rect.x, rect.y>>,
     <<rect.x + rect.w - 1, rect.y>>,
     <<rect.x, rect.y + rect.h - 1>>,
     <<rect.x + rect.h - 1, rect.y + rect.h - 1>> >>

\* lines 209-212: every fill of one parent is assigned in turn
RECURSIVE FillLoop(_, _, _)
FillLoop(fills, j, textMSColor) ==
  IF j > Len(fills) THEN textMSColor
  ELSE FillLoop(fills, j + 1, fills[j])

\* TintLoop that stops at the first parent with a fill
RECURSIVE TintLoop_NearestWins(_, _, _)
TintLoop_NearestWins(parents, i, textMSColor) ==
  IF i > Len(parents) THEN [color |-> textMSColor, read |-> i - 1]
  ELSE IF parents[i].fills # <<>>
  THEN [color |-> FillLoop(parents[i].fills, 1, textMSColor), read |-> i]
  ELSE TintLoop_NearestWins(parents, i + 1, textMSColor)

\* lines 205-215: the walk up the parents, parents[1] being the nearest.
\* Answers the colour and the number of parents whose style was read.
RECURSIVE TintLoop(_, _, _)
TintLoop(parents, i, textMSColor) ==
  IF i > Len(parents) THEN [color |-> textMSColor, read |-> i - 1]
  ELSE TintLoop(parents, i + 1, FillLoop(parents[i].fills, 1, textMSColor))

\* lines 217-222 and 238-243
ToRGBA(c) ==
  [r |-> Round255(c.red), g |-> Round255(c.green),
   b |-> Round255(c.blue), a |-> Round255(c.alpha)]

\* line 224: pointSize() / 1.333333333, in millionths of a point
\* (1 / 1.333333333 = 0.75000000019..., kept to six decimals)
PointSize(px) == px * 750000

\* line 225: /(medium|bold|black)/i on the font name
BoldFontNames == {"Roboto-Medium", "Helvetica-Bold", "Arial-Black"}
isBold(fontName) == fontName \in BoldFontNames

\* passingContrastForLayer with > where the code has >=
passingContrastForLayer_Strict(layer) ==
  LET pointSize == PointSize(layer.pointSize)
      largeText == pointSize > 18000000
                     \/ (isBold(layer.fontName) /\ pointSize > 14000000)
  IN IF largeText THEN 3000 ELSE 4500

\* lines 226-227, in thousandths
passingContrastForLayer(layer) ==
  LET pointSize == PointSize(layer.pointSize)
      largeText == pointSize >= 18000000
                     \/ (isBold(layer.fontName) /\ pointSize >= 14000000)
  IN IF largeText THEN 3000 ELSE 4500

\* lines 238-250: the contrast ratio of the text over one background pixel
contrastRatioOver(bgNSColor, textColor, op) ==
  LET bgColor == ToRGBA(bgNSColor)
      blendedTextColor == mixColors(bgColor, textColor, textColor.a * op)
      lum1 == srgbLuminance(blendedTextColor)
      lum2 == srgbLuminance(Channels(bgColor))
  IN ((Max(lum1, lum2) + 500) * 1000) \div (Min(lum1, lum2) + 500)

\* AddSample that keeps the minimum but not the maximum
AddSample_NoMax(stats, contrastRatio, passing) ==
  [stats EXCEPT !.minCR = Min(@, contrastRatio),
                !.fail = IF contrastRatio < passing THEN @ + 1 ELSE @,
                !.pass = IF contrastRatio < passing THEN @ ELSE @ + 1]

\* lines 251-257
AddSample(stats, contrastRatio, passing) ==
  [stats EXCEPT !.minCR = Min(@, contrastRatio),
                !.maxCR = Max(@, contrastRatio),
                !.fail = IF contrastRatio < passing THEN @ + 1 ELSE @,
                !.pass = IF contrastRatio < passing THEN @ ELSE @ + 1]

\* lines 231-258: the loop over the sample points; lookups records every
\* call of colorAtX_y_
RECURSIVE SampleLoop(_, _, _, _, _, _, _)
SampleLoop(points, i, stats, textColor, op, passing, img) ==
  IF i > Len(points) THEN stats
  ELSE LET bgNSColor == colorAtX_y_(img, points[i][1], points[i][2])
           looked == [stats EXCEPT !.lookups = Append(@, points[i])]
       IN IF bgNSColor = <<>>
          THEN SampleLoop(points, i + 1, looked, textColor, op, passing, img)
          ELSE SampleLoop(points, i + 1,
                 AddSample(looked,
                           contrastRatioOver(bgNSColor[1], textColor, op),
                           passing),
                 textColor, op, passing, img)

\* Aggregate that tests for a failure before it tests for a mix
Aggregate_FailFirst(stats) ==
  IF stats.fail > 0
  THEN [status |-> "fail", contrastRatio |-> Num(stats.minCR), note |-> <<>>]
  ELSE IF stats.pass > 0
  THEN [status |-> "pass", contrastRatio |-> Num(stats.minCR), note |-> <<>>]
  ELSE [status |-> "unknown", contrastRatio |-> Num(0), note |-> <<>>]

\* Aggregate with the default of the single-sample variant: pass, not unknown
Aggregate_PassByDefault(stats) ==
  IF stats.fail > 0 /\ stats.pass > 0
  THEN [status |-> "mixed", contrastRatio |-> Num(stats.minCR),
        note |-> <<formatContrastRatio(Num(stats.minCR)) \o " - "
                     \o formatContrastRatio(Num(stats.maxCR))>>]
  ELSE IF stats.fail > 0
  THEN [status |-> "fail", contrastRatio |-> Num(stats.minCR), note |-> <<>>]
  ELSE IF stats.pass > 0
  THEN [status |-> "pass", contrastRatio |-> Num(stats.minCR), note |-> <<>>]
  ELSE [status |-> "pass", contrastRatio |-> Num(0), note |-> <<>>]

\* lines 260-272
Aggregate(stats) ==
  IF stats.fail > 0 /\ stats.pass > 0
  THEN [status |-> "mixed", contrastRatio |-> Num(stats.minCR),
        note |-> <<formatContrastRatio(Num(stats.minCR)) \o " - "
                     \o formatContrastRatio(Num(stats.maxCR))>>]
  ELSE IF stats.fail > 0
  THEN [status |-> "fail", contrastRatio |-> Num(stats.minCR), note |-> <<>>]
  ELSE IF stats.pass > 0
  THEN [status |-> "pass", contrastRatio |-> Num(stats.minCR), note |-> <<>>]
  ELSE [status |-> "unknown", contrastRatio |-> Num(0), note |-> <<>>]

NoStats == [fail |-> 0, pass |-> 0, minCR |-> Infinity, maxCR |-> 0,
            lookups |-> <<>>]

\* getTypeContrastRating that reads the tints before it tests for a colour,
\* so that a parent's fill stands in for a missing colour
getTypeContrastRating_TintFirst(layer, op, rect, img) ==
  LET tinted == \E i \in 1..Len(layer.parents) : layer.parents[i].fills # <<>>
      missing == layer.color = <<>> /\ ~tinted
      tint == TintLoop(layer.parents, 1,
                       IF layer.color = <<>> THEN Black ELSE layer.color[1])
      textColor == ToRGBA(tint.color)
      passing == passingContrastForLayer(layer)
      stats == SampleLoop(samplePoints(rect), 1, NoStats, textColor, op,
                          passing, img)
  IN IF missing
     THEN [ret |-> [status |-> "unknown", contrastRatio |-> Str("NA"),
                    note |-> <<>>],
           resolved |-> FALSE, lookups |-> <<>>, parentsRead |-> tint.read,
           textColor |-> <<>>, passing |-> 0, stats |-> NoStats]
     ELSE [ret |-> Aggregate(stats),
           resolved |-> TRUE, lookups |-> stats.lookups,
           parentsRead |-> tint.read,
           textColor |-> <<textColor>>, passing |-> passing, stats |-> stats]

\* The whole function.  ret is the object returned; the other fields record
\* what the call did: the pixels it looked up, the parents whose fills it
\* read, the text colour and threshold it used, and its counters.
getTypeContrastRating(layer, op, rect, img) ==
  IF layer.color = <<>>
  THEN [ret |-> [status |-> "unknown", contrastRatio |-> Str("NA"),
                 note |-> <<>>],
        resolved |-> FALSE, lookups |-> <<>>, parentsRead |-> 0,
        textColor |-> <<>>, passing |-> 0, stats |-> NoStats]
  ELSE LET tint == TintLoop(layer.parents, 1, layer.color[1])
           textColor == ToRGBA(tint.color)
           passing == passingContrastForLayer(layer)
           stats == SampleLoop(samplePoints(rect), 1, NoStats, textColor, op,
                               passing, img)
       IN [ret |-> Aggregate(stats),
           resolved |-> TRUE, lookups |-> stats.lookups,
           parentsRead |-> tint.read,
           textColor |-> <<textColor>>, passing |-> passing, stats |-> stats]

(***************************************************************************)
(* The document: layers are records, a group's children in its layers      *)
(* field; a layer is addressed by its path of indices from the page.  The  *)
(* origin field is history, not program state: "user" for the design,      *)
(* "report" for what a command of this plugin created.                     *)
(***************************************************************************)
META_GROUP_NAME == "___CONTRAST___"

Frame(x, y, w, h) == [x |-> x, y |-> y, w |-> w, h |-> h]

Layer(class, name, frame) ==
  [class |-> class, name |-> name, isVisible |-> TRUE, origin |-> "user",
   frame |-> frame, opacity |-> 1000, fills |-> <<>>,
   color |-> <<>>, pointSize |-> 0, fontName |-> "", stringValue |-> "",
   background |-> "", layers |-> <<>>]

TextLayer(text, color, frame) ==
  [Layer("MSTextLayer", text, frame) EXCEPT
     !.color = color, !.pointSize = 16, !.fontName = "Roboto-Regular",
     !.stringValue = text]

\* the colours of lines 25-29, components in thousandths
Colors ==
  [PASS |-> MSColorOf(0, 698, 0, 400),
   FAIL |-> MSColorOf(1000, 0, 0, 400),
   UNKNOWN |-> MSColorOf(1000, 835, 310, 400)]

Mode == [IMAGE |-> 0, INLINE |-> 1]

\* parent.children(): the paths of every layer below, depth first
RECURSIVE ChildPaths(_, _)
ChildPaths(layers, i) ==
  IF i > Len(layers) THEN <<>>
  ELSE LET below == ChildPaths(layers[i].layers, 1)
       IN <<<<i>>>> \o [k \in 1..Len(below) |-> <<i>> \o below[k]]
            \o ChildPaths(layers, i + 1)

children(parent) == ChildPaths(parent.layers, 1)

RECURSIVE LayerAt(_, _)
LayerAt(parent, path) ==
  IF path = <<>> THEN parent
  ELSE LayerAt(parent.layers[Head(path)], Tail(path))

RECURSIVE SetIsVisible(_, _, _)
SetIsVisible(parent, path, v) ==
  IF path = <<>> THEN [parent EXCEPT !.isVisible = v]
  ELSE [parent EXCEPT
          !.layers[Head(path)] = SetIsVisible(@, Tail(path), v)]

RECURSIVE SetAllVisible(_, _, _, _)
SetAllVisible(parent, paths, i, v) ==
  IF i > Len(paths) THEN parent
  ELSE SetAllVisible(SetIsVisible(parent, paths[i], v), paths, i + 1, v)

\* util.getAllLayersMatchingPredicate(parent, predicate), for the two
\* predicates of commands.js, as the paths below parent
LayersNamed(parent, name) ==
  LET IsNamed(path) == LayerAt(parent, path).name = name
  IN SelectSeq(children(parent), IsNamed)

LayersOfClass(parent, class) ==
  LET IsOfClass(path) == LayerAt(parent, path).class = class
  IN SelectSeq(children(parent), IsOfClass)

\* g.removeFromParent() for every layer of the given name below parent
RECURSIVE RemoveNamed(_, _, _)
RemoveNamed(layers, i, name) ==
  IF i > Len(layers) THEN <<>>
  ELSE IF layers[i].name = name THEN RemoveNamed(layers, i + 1, name)
  ELSE <<[layers[i] EXCEPT !.layers = RemoveNamed(@, 1, name)]>>
         \o RemoveNamed(layers, i + 1, name)

\* removeInlineContrastReports that removes but always answers false
removeInlineContrastReports_NoReturn(parent) ==
  [parent |-> [parent EXCEPT !.layers = RemoveNamed(@, 1, META_GROUP_NAME)],
   returned |-> FALSE, removed |-> Len(LayersNamed(parent, META_GROUP_NAME))]

\* lines 75-85
removeInlineContrastReports(parent) ==
  LET contrastMetaGroups == LayersNamed(parent, META_GROUP_NAME)
  IN IF Len(contrastMetaGroups) > 0
     THEN [parent |-> [parent EXCEPT
                         !.layers = RemoveNamed(@, 1, META_GROUP_NAME)],
           returned |-> TRUE, removed |-> Len(contrastMetaGroups)]
     ELSE [parent |-> parent, returned |-> FALSE, removed |-> 0]

\* lines 287-296: the layer and every group between it and parent is visible
RECURSIVE PathVisible(_, _)
PathVisible(parent, path) ==
  IF path = <<>> THEN TRUE
  ELSE /\ parent.layers[Head(path)].isVisible
       /\ PathVisible(parent.layers[Head(path)], Tail(path))

\* lines 301-308: the groups between the text layer and its artboard add
\* their origin to the rectangle and multiply into the opacity
RECURSIVE Accumulate(_, _, _)
Accumulate(parent, path, info) ==
  IF Len(path) <= 1 THEN info
  ELSE LET group == parent.layers[Head(path)]
       IN Accumulate(group, Tail(path),
            [info EXCEPT !.rectangle.x = @ + group.frame.x,
                         !.rectangle.y = @ + group.frame.y,
                         !.opacity = (@ * group.opacity) \div 1000])

\* textLayer.parentGroup() upwards, nearest first: the groups of the path,
\* then the artboard and the page, which carry no fill
RECURSIVE ParentsOf(_, _)
ParentsOf(parent, path) ==
  IF Len(path) <= 1 THEN <<[fills |-> parent.fills]>>
  ELSE ParentsOf(parent.layers[Head(path)], Tail(path))
         \o <<[fills |-> parent.fills]>>

\* lines 282-348, for artboards without symbol instances
findVisibleTextLayerInfos(parent) ==
  LET IsVisible(path) == PathVisible(parent, path)
      visibleTextLayers ==
        SelectSeq(LayersOfClass(parent, "MSTextLayer"), IsVisible)
  IN [k \in 1..Len(visibleTextLayers) |->
        LET path == visibleTextLayers[k]
            layer == LayerAt(parent, path)
        IN Accumulate(parent, path,
             [layer |-> path, origin |-> layer.origin, opacity |-> 1000,
              rectangle |-> layer.frame,
              style |-> [color |-> layer.color,
                         pointSize |-> layer.pointSize,
                         fontName |-> layer.fontName,
                         parents |-> ParentsOf(parent, path)
                                       \o <<[fills |-> <<>>]>>]])]

\* util.getArtboardImage: the artboard as the host draws it.  The pixels
\* are the artboard's background; painted names the layers that were
\* visible, and so drawn, when the image was taken.
getArtboardImage(artboard) ==
  LET paths == children(artboard)
  IN [kind |-> artboard.background, w |-> RasterW, h |-> RasterH,
      painted |-> {[layer |-> paths[k],
                    class |-> LayerAt(artboard, paths[k]).class,
                    origin |-> LayerAt(artboard, paths[k]).origin] :
                     k \in {j \in 1..Len(paths) :
                              PathVisible(artboard, paths[j])}}]

\* lines 126-165: the layers the overlay adds to the meta group
renderContrastReportOverlay(metaGroup, rect, rated) ==
  LET overlayText ==
        IF rated.status = "fail" THEN formatContrastRatio(rated.contrastRatio)
        ELSE IF rated.note # <<>> THEN rated.note[1] ELSE ""
      fillColor ==
        CASE rated.status = "pass" -> <<Colors.PASS>>
          [] rated.status = "fail" -> <<Colors.FAIL>>
          [] rated.status \in {"unknown", "mixed"} -> <<Colors.UNKNOWN>>
          [] OTHER -> <<>>
      fillLayer ==
        [Layer("MSShapeGroup", "Rectangle", rect) EXCEPT
           !.fills = fillColor, !.origin = "report"]
      labelFrame ==
        IF rect.w < 100
        THEN [rect EXCEPT !.x = @ - (100 - rect.w) \div 2, !.w = 100]
        ELSE rect
      overlayTextLayer ==
        [TextLayer(overlayText, <<White>>, labelFrame) EXCEPT
           !.pointSize = 10, !.fontName = ".SFNSText-Bold",
           !.origin = "report"]
  IN [metaGroup EXCEPT
        !.layers = @ \o <<fillLayer>>
                     \o (IF overlayText # "" THEN <<overlayTextLayer>>
                         ELSE <<>>)]

\* lines 107-111: rate every text layer against the one image and draw its
\* overlay; answers the meta group and the log of what was done
RECURSIVE RateLoop(_, _, _, _, _)
RateLoop(infos, i, image, metaGroup, log) ==
  IF i > Len(infos) THEN [metaGroup |-> metaGroup, log |-> log]
  ELSE LET info == infos[i]
           rated == getTypeContrastRating(info.style, info.opacity,
                                          info.rectangle, image)
           drawn == renderContrastReportOverlay(metaGroup, info.rectangle,
                                                rated.ret)
       IN RateLoop(infos, i + 1, image, drawn,
            log \o <<[op |-> "rate", layer |-> info.layer,
                      origin |-> info.origin, status |-> rated.ret.status,
                      painted |-> image.painted],
                     [op |-> "overlay", layer |-> info.layer,
                      origin |-> "report", status |-> rated.ret.status,
                      painted |-> {}]>>)

Step(op) ==
  [op |-> op, layer |-> <<>>, origin |-> "", status |-> "", painted |-> {}]

\* lines 107-119, once the image is taken: rate and draw, show the text
\* layers again, export in IMAGE mode, remove the copy
RateAndFinish(pg3, a, c, mode, infos, image) ==
  LET textPaths == [k \in 1..Len(infos) |-> infos[k].layer]
      target == IF mode = Mode.IMAGE THEN c ELSE a
      m == Len(pg3.layers[target].layers)    \* where the meta group is
  IN CHOOSE done \in
       {LET pg4 == [pg3 EXCEPT !.layers[target].layers[m] = loop.metaGroup]
            pg5 == [pg4 EXCEPT
                      !.layers[c] = SetAllVisible(@, textPaths, 1, TRUE)]
            final ==
              IF mode = Mode.IMAGE
              THEN <<[Step("image") EXCEPT
                        !.painted = getArtboardImage(pg5.layers[c]).painted]>>
              ELSE <<>>
            pg6 == [pg5 EXCEPT !.layers = SubSeq(@, 1, c - 1)]
        IN [page |-> pg6,
            log |-> <<Step("copy")>>
                      \o [k \in 1..Len(textPaths) |->
                            [Step("hide") EXCEPT !.layer = textPaths[k]]]
                      \o <<[Step("addMeta") EXCEPT
                              !.layer = IF mode = Mode.IMAGE THEN <<m>>
                                        ELSE <<>>],
                           [Step("raster") EXCEPT !.painted = image.painted]>>
                      \o loop.log
                      \o [k \in 1..Len(textPaths) |->
                            [Step("show") EXCEPT !.layer = textPaths[k]]]
                      \o final
                      \o <<Step("removeCopy")>>,
            returned |-> mode = Mode.IMAGE] :
          loop \in {RateLoop(infos, 1, image,
                             pg3.layers[target].layers[m], <<>>)}} : TRUE

\* HideAndRaster that takes the image before it hides the text layers
HideAndRaster_ImageFirst(pg1, a, c, mode, infos) ==
  LET textPaths == [k \in 1..Len(infos) |-> infos[k].layer]
      pg2 == [pg1 EXCEPT
                !.layers[c] = SetAllVisible(@, textPaths, 1, FALSE)]
      metaGroup == [Layer("MSLayerGroup", META_GROUP_NAME, Frame(0, 0, 0, 0))
                      EXCEPT !.origin = "report"]
      target == IF mode = Mode.IMAGE THEN c ELSE a
  IN CHOOSE done \in
       {RateAndFinish(pg3, a, c, mode, infos,
                      getArtboardImage(pg1.layers[c])) :
          pg3 \in {[pg2 EXCEPT
                      !.layers[target].layers = Append(@, metaGroup)]}} : TRUE

\* lines 97-106, once the text layers are found: hide them, add the meta
\* group to the copy (IMAGE) or to the artboard (INLINE), take the image
HideAndRaster(pg1, a, c, mode, infos) ==
  LET textPaths == [k \in 1..Len(infos) |-> infos[k].layer]
      pg2 == [pg1 EXCEPT
                !.layers[c] = SetAllVisible(@, textPaths, 1, FALSE)]
      metaGroup == [Layer("MSLayerGroup", META_GROUP_NAME, Frame(0, 0, 0, 0))
                      EXCEPT !.origin = "report"]
      target == IF mode = Mode.IMAGE THEN c ELSE a
  IN CHOOSE done \in
       {RateAndFinish(pg3, a, c, mode, infos,
                      getArtboardImage(pg3.layers[c])) :
          pg3 \in {[pg2 EXCEPT
                      !.layers[target].layers = Append(@, metaGroup)]}} : TRUE

\* lines 92-120.  pg is the page, a the index of the artboard in it.
\* Answers the page afterwards, the log of the steps, and whether an image
\* was returned.  The addMeta step names the meta group's place in the copy
\* (IMAGE mode; in INLINE mode the group is not in the copy).
createContrastReport(pg, a, mode) ==
  CHOOSE done \in
    {HideAndRaster(pg1, a, Len(pg1.layers), mode,
                   findVisibleTextLayerInfos(pg1.layers[Len(pg1.layers)])) :
       pg1 \in {[pg EXCEPT !.layers = Append(@, pg.layers[a])]}} : TRUE

NoCmd == [name |-> "", removed |-> 0, created |-> 0, opened |-> FALSE,
          log |-> <<>>]

\* line 65: the artboards among the page's layers, as indices
ArtboardsOf(pg) ==
  SelectSeq([k \in 1..Len(pg.layers) |-> k],
            LAMBDA k : pg.layers[k].class = "MSArtboardGroup")

RECURSIVE ReportEach(_, _, _, _)
ReportEach(pg, artboards, i, log) ==
  IF i > Len(artboards) THEN [page |-> pg, log |-> log]
  ELSE CHOOSE all \in
         {ReportEach(done.page, artboards, i + 1, log \o done.log) :
            done \in {createContrastReport(pg, artboards[i], Mode.INLINE)}} :
         TRUE

\* lines 59-68
onCheckAllArtboards ==
  \E removal \in {removeInlineContrastReports(page)} :
    IF removal.returned
    THEN /\ page' = removal.parent
         /\ cmd' = [NoCmd EXCEPT !.name = "onCheckAllArtboards",
                                 !.removed = removal.removed]
    ELSE \E reports \in {ReportEach(removal.parent,
                                    ArtboardsOf(removal.parent), 1, <<>>)} :
           /\ page' = reports.page
           /\ cmd' = [NoCmd EXCEPT !.name = "onCheckAllArtboards",
                                   !.created = Len(ArtboardsOf(page)),
                                   !.log = reports.log]

\* lines 38-56.  selection is context.selection: a sequence of paths.
onCheckCurrentArtboard(selection) ==
  IF selection = <<>>
       \/ page.layers[selection[1][1]].class # "MSArtboardGroup"
  THEN /\ cmd' = [NoCmd EXCEPT !.name = "message"]
       /\ page' = page
  ELSE \E done \in {createContrastReport(page, selection[1][1], Mode.IMAGE)} :
         /\ page' = done.page
         /\ cmd' = [NoCmd EXCEPT !.name = "onCheckCurrentArtboard",
                                 !.opened = done.returned,
                                 !.log = done.log]

(***************************************************************************)
(* unnamed/part_000: the single-sample getTypeContrastRating               *)
(***************************************************************************)
\* lines 282-284
samplePointsLegacy(rect) == << <<rect.x, rect.y>> >>

\* lines 298-324: the loop over the sample points, which returns at the
\* first pixel it can read; ret is empty when the loop runs out
RECURSIVE SampleLoopLegacy(_, _, _, _, _, _, _)
SampleLoopLegacy(points, i, lookups, textColor, op, passing, img) ==
  IF i > Len(points) THEN [ret |-> <<>>, lookups |-> lookups]
  ELSE LET bgNSColor == colorAtX_y_(img, points[i][1], points[i][2])
           looked == Append(lookups, points[i])
       IN IF bgNSColor = <<>>
          THEN SampleLoopLegacy(points, i + 1, looked, textColor, op,
                                passing, img)
          ELSE LET contrastRatio ==
                     contrastRatioOver(bgNSColor[1], textColor, op)
               IN [ret |-> <<[status |-> IF contrastRatio < passing
                                           THEN "fail" ELSE "pass",
                              contrastRatio |->
                                ToFixed2(contrastRatio) \o ":1"]>>,
                   lookups |-> looked]

\* lines 281-327.  ret holds the object returned, and is empty when the
\* call threw: line 288 calls red() on the colour attribute without testing
\* it, a TypeError when the attribute is undefined.
getTypeContrastRatingLegacy(layer, op, rect, img) ==
  IF layer.color = <<>>
  THEN [ret |-> <<>>, threw |-> TRUE, lookups |-> <<>>]
  ELSE LET textColor == ToRGBA(layer.color[1])
           passing == passingContrastForLayer(layer)
           loop == SampleLoopLegacy(samplePointsLegacy(rect), 1, <<>>,
                                    textColor, op, passing, img)
       IN IF loop.ret # <<>>
          THEN [ret |-> loop.ret, threw |-> FALSE, lookups |-> loop.lookups]
          ELSE [ret |-> <<[status |-> "pass", contrastRatio |-> "NA"]>>,
                threw |-> FALSE, lookups |-> loop.lookups]

(***************************************************************************)
(* Inputs of the rating.                                                   *)
(***************************************************************************)
TextColors == {Black, Grey136, Dark36, HalfBlack}
FontSizes == {16, 19, 24}          \* px: 12pt, 14.25pt, 18pt
FontNames == {"Roboto-Regular", "Roboto-Medium"}
Opacities == {500, 1000}
ImageKinds == {"white", "columns", "rows"}
FillLists == {<<>>, <<Grey136>>, <<Black>>, <<Black, Grey136>>}

Images == [kind : ImageKinds, w : {RasterW}, h : {RasterH}]

Rectangles ==
  [x : (0 - MaxSide)..RasterW, y : (0 - MaxSide)..RasterH,
   w : 1..MaxSide, h : 1..MaxSide]

RECURSIVE SeqsUpTo(_, _)
SeqsUpTo(S, n) ==
  IF n = 0 THEN {<<>>}
  ELSE LET shorter == SeqsUpTo(S, n - 1)
       IN shorter \cup {Append(q, e) : q \in shorter, e \in S}

ParentChains == SeqsUpTo([fills : FillLists], MaxParents)

NoRating == [ret |-> [status |-> "none", contrastRatio |-> Str(""),
                      note |-> <<>>],
             resolved |-> FALSE, lookups |-> <<>>, parentsRead |-> 0,
             textColor |-> <<>>, passing |-> 0, stats |-> NoStats]

\* Text layers without tinting parents, over every rectangle and raster
InitSampling ==
  /\ textLayer \in [color : {<<>>} \cup {<<c>> : c \in TextColors},
                    pointSize : FontSizes, fontName : FontNames,
                    parents : {<<>>}]
  /\ opacity \in Opacities
  /\ rectangle \in Rectangles
  /\ bitmapImageRep \in Images

\* Text layers under tinting parents, over a rectangle inside the raster
InitTinted ==
  /\ textLayer \in [color : {<<>>, <<Black>>, <<Grey136>>},
                    pointSize : {16}, fontName : FontNames,
                    parents : ParentChains \ {<<>>}]
  /\ opacity = 1000
  /\ rectangle = [x |-> 0, y |-> 0, w |-> 1, h |-> 1]
  /\ bitmapImageRep \in Images

NoPage == [Layer("MSPage", "Page 1", Frame(0, 0, 0, 0)) EXCEPT
             !.layers = <<>>]

Init ==
  /\ InitSampling \/ InitTinted
  /\ rating = NoRating
  /\ pc = "ready"
  /\ page = NoPage
  /\ cmd = NoCmd

Rate ==
  /\ pc = "ready"
  /\ rating' = getTypeContrastRating(textLayer, opacity, rectangle,
                                     bitmapImageRep)
  /\ pc' = "rated"
  /\ UNCHANGED <<textLayer, opacity, rectangle, bitmapImageRep>>
  /\ UNCHANGED pageVars

Next == Rate

Spec == Init /\ [][Next]_vars

\* The single-sample variant called on the same inputs
RateLegacy ==
  /\ pc = "ready"
  /\ rating' = getTypeContrastRatingLegacy(textLayer, opacity, rectangle,
                                           bitmapImageRep)
  /\ pc' = "ratedLegacy"
  /\ UNCHANGED <<textLayer, opacity, rectangle, bitmapImageRep>>
  /\ UNCHANGED pageVars

NextLegacy == RateLegacy

SpecLegacy == Init /\ [][NextLegacy]_vars

(***************************************************************************)
(* The commands, over pages of the user's design.                          *)
(***************************************************************************)
BlackText == TextLayer("Title", <<Black>>, Frame(0, 0, 2, 1))
GreyText == TextLayer("Hint", <<Grey136>>, Frame(0, 1, 2, 1))
HiddenText == [TextLayer("Draft", <<Black>>, Frame(0, 0, 2, 2)) EXCEPT
                 !.isVisible = FALSE]
FadedGroup ==
  [Layer("MSLayerGroup", "Group", Frame(1, 0, 2, 2)) EXCEPT
     !.opacity = 500, !.layers = <<GreyText>>]
\* a layer of the design that carries the reserved name
ReservedNameShape == Layer("MSShapeGroup", META_GROUP_NAME, Frame(0, 0, 1, 1))

UserLayers == {GreyText, HiddenText, FadedGroup, ReservedNameShape}

Artboard(name, background, layers) ==
  [Layer("MSArtboardGroup", name, Frame(0, 0, RasterW, RasterH)) EXCEPT
     !.background = background, !.layers = layers]

FirstArtboards ==
  {Artboard("Artboard 1", bg, ls) :
     bg \in {"white", "columns"}, ls \in SeqsUpTo(UserLayers, MaxLayers)}

\* what else lies on the page: further artboards, or a layer outside any
OtherTopLayers ==
  {Artboard("Artboard 2", "white", <<BlackText>>),
   Layer("MSShapeGroup", "Loose", Frame(0, 0, 1, 1))}

Pages ==
  {[NoPage EXCEPT !.layers = <<first>> \o rest] :
     first \in FirstArtboards,
     rest \in SeqsUpTo(OtherTopLayers, MaxArtboards - 1)}

\* context.selection: nothing, a top-level layer, or a layer inside one
Selections(pg) ==
  {<<>>} \cup {<<<<k>>>> : k \in 1..Len(pg.layers)}
         \cup {<<<<k, 1>>>> : k \in {j \in 1..Len(pg.layers) :
                                       Len(pg.layers[j].layers) > 0}}

InitPage ==
  /\ page \in Pages
  /\ cmd = NoCmd
  /\ textLayer = [color |-> <<>>, pointSize |-> 16,
                  fontName |-> "Roboto-Regular", parents |-> <<>>]
  /\ opacity = 1000
  /\ rectangle = Frame(0, 0, 1, 1)
  /\ bitmapImageRep = [kind |-> "white", w |-> RasterW, h |-> RasterH]
  /\ rating = NoRating
  /\ pc = "ready"

CheckAllArtboards ==
  /\ onCheckAllArtboards
  /\ UNCHANGED ratingVars

CheckCurrentArtboard ==
  /\ \E selection \in Selections(page) : onCheckCurrentArtboard(selection)
  /\ UNCHANGED ratingVars

NextPage == CheckAllArtboards \/ CheckCurrentArtboard

SpecPage == InitPage /\ [][NextPage]_vars

(***************************************************************************)
(* Vocabulary of the properties below, stated on the inputs of the call.   *)
(***************************************************************************)
Rated == pc = "rated"
Resolvable == textLayer.color # <<>>

InBounds(pt) ==
  /\ pt[1] >= 0 /\ pt[1] < bitmapImageRep.w
  /\ pt[2] >= 0 /\ pt[2] < bitmapImageRep.h

\* The four corner points as the specification lists them
CornerPoints ==
  << <<rectangle.x, rectangle.y>>,
     <<rectangle.x + rectangle.w - 1, rectangle.y>>,
     <<rectangle.x, rectangle.y + rectangle.h - 1>>,
     <<rectangle.x + rectangle.h - 1, rectangle.y + rectangle.h - 1>> >>

\* The sample points (by position in the list) that lie inside the raster
InBoundsSamples == {i \in 1..4 : InBounds(CornerPoints[i])}

\* The ratio of the text colour the call used over the pixel of sample i
RatioAt(i) ==
  contrastRatioOver(PixelColor(bitmapImageRep, CornerPoints[i][1],
                               CornerPoints[i][2]),
                    rating.textColor[1], opacity)

\* 3.0 for large text, 4.5 otherwise, with the point size as px * 3 / 4
IsBoldName == textLayer.fontName \in {"Roboto-Medium"}
IsLargeText ==
  \/ textLayer.pointSize * 3 >= 18 * 4
  \/ (IsBoldName /\ textLayer.pointSize * 3 >= 14 * 4)
Threshold == IF IsLargeText THEN 3000 ELSE 4500

PassingSamples == {i \in InBoundsSamples : RatioAt(i) >= Threshold}
FailingSamples == {i \in InBoundsSamples : RatioAt(i) < Threshold}

MinRatio ==
  CHOOSE m \in {RatioAt(i) : i \in InBoundsSamples} :
    \A i \in InBoundsSamples : m <= RatioAt(i)
MaxRatio ==
  CHOOSE m \in {RatioAt(i) : i \in InBoundsSamples} :
    \A i \in InBoundsSamples : m >= RatioAt(i)

\* C1: for a resolvable text colour the status is decided by the in-bounds
\* samples alone: pass iff there is one and all pass, fail iff there is one
\* and all fail, mixed iff one passes and one fails, unknown iff there is
\* none; out-of-bounds samples enter neither the counts nor the min/max.
C1_StatusFromInBoundsSamples ==
  (Rated /\ Resolvable) =>
    /\ (rating.ret.status = "pass")
         <=> (InBoundsSamples # {} /\ FailingSamples = {})
    /\ (rating.ret.status = "fail")
         <=> (InBoundsSamples # {} /\ PassingSamples = {})
    /\ (rating.ret.status = "mixed")
         <=> (PassingSamples # {} /\ FailingSamples # {})
    /\ (rating.ret.status = "unknown") <=> (InBoundsSamples = {})
    /\ rating.stats.pass = Cardinality(PassingSamples)
    /\ rating.stats.fail = Cardinality(FailingSamples)
    /\ InBoundsSamples # {} =>
         (rating.stats.minCR = MinRatio /\ rating.stats.maxCR = MaxRatio)
    /\ InBoundsSamples = {} =>
         (rating.stats.minCR = Infinity /\ rating.stats.maxCR = 0)

\* a rating of a rectangle that straddles the raster, with mixed outcome
C1_Witness ==
  /\ Rated /\ Resolvable
  /\ Cardinality(InBoundsSamples) \in 1..3
  /\ rating.ret.status = "mixed"

\* C2 (as stated): the status is unknown iff no in-bounds sample was
\* obtainable and the text colour was resolvable.
C2_UnknownIffNoSampleAndResolvable ==
  Rated =>
    ((rating.ret.status = "unknown") <=> (InBoundsSamples = {} /\ Resolvable))

\* C2 (amended): the status is unknown iff the text colour was unresolvable
\* or no sample point was in bounds; the ratio tells the two causes apart
\* ('NA' for the colour, 0 for the samples).
C2_UnknownIffUnresolvedOrNoSample ==
  Rated =>
    /\ (rating.ret.status = "unknown")
         <=> (~Resolvable \/ InBoundsSamples = {})
    /\ (rating.ret.status = "unknown" /\ rating.ret.contrastRatio = Num(0))
         <=> (Resolvable /\ InBoundsSamples = {})
    /\ (rating.ret.status = "unknown" /\ rating.ret.contrastRatio = Str("NA"))
         <=> ~Resolvable

\* an unresolvable colour over a rectangle with all four corners in bounds
C2_Witness ==
  /\ Rated /\ ~Resolvable
  /\ InBoundsSamples = 1..4
  /\ rating.ret.status = "unknown"

\* No pixel of the rectangle is inside the raster
RectangleOutside ==
  \A px \in rectangle.x..(rectangle.x + rectangle.w - 1) :
    \A py \in rectangle.y..(rectangle.y + rectangle.h - 1) :
      ~InBounds(<<px, py>>)

\* C3: a rectangle entirely outside the raster, with a resolvable colour, is
\* rated {status: 'unknown', contrastRatio: 0}, no sample point obtaining a
\* background pixel.
C3_OutsideRectangleIsUnknown ==
  (Rated /\ Resolvable /\ RectangleOutside) =>
    /\ rating.ret = [status |-> "unknown", contrastRatio |-> Num(0),
                     note |-> <<>>]
    /\ rating.stats.pass + rating.stats.fail = 0

\* C4: an unresolvable text colour is rated {status: 'unknown',
\* contrastRatio: 'NA'} for every raster and rectangle, with no pixel looked
\* up and no parent's fills read.
C4_UnresolvableIsUnknownNA ==
  (Rated /\ ~Resolvable) =>
    /\ rating.ret = [status |-> "unknown", contrastRatio |-> Str("NA"),
                     note |-> <<>>]
    /\ rating.lookups = <<>>
    /\ rating.parentsRead = 0

\* an unresolvable colour under a tinting parent, over an in-bounds rectangle
C4_Witness ==
  /\ Rated /\ ~Resolvable
  /\ \E i \in 1..Len(textLayer.parents) : textLayer.parents[i].fills # <<>>
  /\ InBoundsSamples # {}

\* C5: the threshold is 3.0 exactly for large text (>= 18pt, or bold and
\* >= 14pt) and 4.5 otherwise; in-bounds ratios all in [3.0, 4.5) rate pass
\* at 18pt normal weight and fail at 12pt normal weight; a ratio equal to the
\* threshold passes.
C5_LargeTextThreshold ==
  (Rated /\ Resolvable) =>
    /\ rating.passing = Threshold
    /\ (InBoundsSamples # {}
        /\ \A i \in InBoundsSamples : RatioAt(i) >= 3000 /\ RatioAt(i) < 4500)
         => /\ (textLayer.pointSize = 24 /\ ~IsBoldName)
                 => rating.ret.status = "pass"
            /\ (textLayer.pointSize = 16 /\ ~IsBoldName)
                 => rating.ret.status = "fail"
    /\ (InBoundsSamples # {}
        /\ \A i \in InBoundsSamples : RatioAt(i) = Threshold)
         => rating.ret.status = "pass"

\* 18pt normal-weight text whose every sample has ratio exactly 3.0
C5_Witness ==
  /\ Rated /\ Resolvable
  /\ textLayer.pointSize = 24 /\ ~IsBoldName
  /\ InBoundsSamples # {}
  /\ \A i \in InBoundsSamples : RatioAt(i) = 3000
  /\ rating.ret.status = "pass"

\* A ratio to two decimals followed by ':1', digit by digit
Digit(d) == <<"0", "1", "2", "3", "4", "5", "6", "7", "8", "9">>[d + 1]
TwoDecimals(n) ==
  LET h == (n + 5) \div 10
  IN ToString(h \div 100) \o "." \o Digit((h \div 10) % 10) \o Digit(h % 10)
       \o ":1"

BlackRGBA == [r |-> 0, g |-> 0, b |-> 0, a |-> 255]
WhiteRGBA == [r |-> 255, g |-> 255, b |-> 255, a |-> 255]

OpaqueBlackOnWhite ==
  /\ Resolvable
  /\ rating.textColor = <<BlackRGBA>>
  /\ opacity = 1000
  /\ InBoundsSamples # {}
  /\ \A i \in InBoundsSamples :
       PixelColor(bitmapImageRep, CornerPoints[i][1], CornerPoints[i][2])
         = White

\* C7: opaque black text at opacity 1 over white in-bounds samples is rated
\* pass with ratio 21 at every font size and weight: the blend is the text
\* colour, of luminance 0, against luminance 1.
C7_BlackOnWhiteIs21 ==
  (Rated /\ OpaqueBlackOnWhite) =>
    /\ rating.ret.status = "pass"
    /\ rating.ret.contrastRatio = Num(21000)
    /\ mixColors(WhiteRGBA, BlackRGBA, BlackRGBA.a * opacity)
         = Channels(BlackRGBA)
    /\ srgbLuminance(Channels(BlackRGBA)) = 0
    /\ srgbLuminance(Channels(WhiteRGBA)) = 10000
    /\ rating.passing \in {3000, 4500}

\* black 12pt regular text over a white raster, partly out of bounds
C7_Witness ==
  /\ Rated /\ OpaqueBlackOnWhite
  /\ textLayer.pointSize = 16 /\ ~IsBoldName
  /\ Cardinality(InBoundsSamples) < 4
  /\ rating.ret.contrastRatio = Num(21000)

\* The parents (1 is the nearest) that carry a fill
FilledParents ==
  {i \in 1..Len(textLayer.parents) : textLayer.parents[i].fills # <<>>}
NearestFilled == CHOOSE i \in FilledParents : \A j \in FilledParents : i <= j
FarthestFilled == CHOOSE i \in FilledParents : \A j \in FilledParents : i >= j

\* C8 (as stated): the text colour used is a fill colour of the nearest
\* parent that has a fill, and the layer's own colour when none has.
C8_NearestTintWins ==
  (Rated /\ Resolvable) =>
    IF FilledParents = {}
    THEN rating.textColor = <<ToRGBA(textLayer.color[1])>>
    ELSE \E k \in 1..Len(textLayer.parents[NearestFilled].fills) :
           rating.textColor
             = <<ToRGBA(textLayer.parents[NearestFilled].fills[k])>>

\* C8 (amended): the text colour used is the last fill of the farthest
\* (outermost) parent that has a fill, and the layer's own colour when none
\* has.
C8_FarthestTintWins ==
  (Rated /\ Resolvable) =>
    /\ rating.parentsRead = Len(textLayer.parents)
    /\ IF FilledParents = {}
       THEN rating.textColor = <<ToRGBA(textLayer.color[1])>>
       ELSE LET fills == textLayer.parents[FarthestFilled].fills
            IN rating.textColor = <<ToRGBA(fills[Len(fills)])>>

\* two parents at different depths with different fills
C8_Witness ==
  /\ Rated /\ Resolvable
  /\ Cardinality(FilledParents) >= 2
  /\ textLayer.parents[NearestFilled].fills
       # textLayer.parents[FarthestFilled].fills
  /\ rating.textColor
       = <<ToRGBA(textLayer.parents[FarthestFilled].fills[1])>>

\* C9: the rating looks up exactly the four points (x, y), (x+w-1, y),
\* (x, y+h-1), (x+h-1, y+h-1), in this order, once each, and none when the
\* text colour is unresolvable.
C9_FourLookupsInOrder ==
  Rated =>
    rating.lookups
      = IF Resolvable
        THEN << <<rectangle.x, rectangle.y>>,
                <<rectangle.x + rectangle.w - 1, rectangle.y>>,
                <<rectangle.x, rectangle.y + rectangle.h - 1>>,
                <<rectangle.x + rectangle.h - 1,
                  rectangle.y + rectangle.h - 1>> >>
        ELSE <<>>

\* a rectangle wider than high whose first corner is out of bounds
C9_Witness ==
  /\ Rated /\ Resolvable
  /\ rectangle.w > rectangle.h
  /\ ~InBounds(CornerPoints[1])
  /\ InBoundsSamples # {}
  /\ Len(rating.lookups) = 4

(***************************************************************************)
(* Vocabulary of the properties of the commands.                           *)
(***************************************************************************)
IsPrefix(p, q) == Len(p) <= Len(q) /\ SubSeq(q, 1, Len(p)) = p

\* The layers of the reserved name anywhere under the page pg, as paths
ReservedPaths(pg) ==
  {q \in {children(pg)[k] : k \in 1..Len(children(pg))} :
     LayerAt(pg, q).name = "___CONTRAST___"}

\* The layers that go when every layer of the reserved name is removed
DoomedPaths(pg) ==
  {q \in {children(pg)[k] : k \in 1..Len(children(pg))} :
     \E r \in ReservedPaths(pg) : IsPrefix(r, q)}

ArtboardIndices(pg) ==
  {k \in 1..Len(pg.layers) : pg.layers[k].class = "MSArtboardGroup"}

\* The report groups an artboard holds: the groups of the reserved name
\* that a command created, directly in the artboard
ReportGroupsIn(artboard) ==
  {i \in 1..Len(artboard.layers) :
     /\ artboard.layers[i].name = "___CONTRAST___"
     /\ artboard.layers[i].origin = "report"}

AtMostOneReportPerArtboard ==
  \A k \in ArtboardIndices(page) :
    Cardinality(ReportGroupsIn(page.layers[k])) <= 1

\* one invocation of onCheckAllArtboards, from the page before to the page
\* after it
ToggleStep ==
  cmd'.name = "onCheckAllArtboards" =>
    IF ReservedPaths(page) # {}
    THEN /\ ReservedPaths(page') = {}
         /\ cmd'.removed = Cardinality(ReservedPaths(page))
         /\ Len(children(page'))
              = Len(children(page)) - Cardinality(DoomedPaths(page))
         /\ cmd'.created = 0 /\ cmd'.log = <<>>
    ELSE /\ cmd'.removed = 0
         /\ Len(page'.layers) = Len(page.layers)
         /\ cmd'.created = Cardinality(ArtboardIndices(page))
         /\ \A k \in 1..Len(page.layers) :
              IF k \in ArtboardIndices(page)
              THEN /\ Len(page'.layers[k].layers)
                        = Len(page.layers[k].layers) + 1
                   /\ SubSeq(page'.layers[k].layers, 1,
                             Len(page.layers[k].layers))
                        = page.layers[k].layers
                   /\ Cardinality(ReportGroupsIn(page'.layers[k])) = 1
                   /\ page'.layers[k].layers[Len(page'.layers[k].layers)].class
                        = "MSLayerGroup"
              ELSE page'.layers[k] = page.layers[k]

\* C10: onCheckAllArtboards toggles: if a layer of the reserved name is
\* anywhere under the page, all of them are removed and no report is
\* created; otherwise nothing is removed and exactly one report group is
\* added to each artboard.  So an artboard never holds two report groups.
C10_CheckAllArtboardsToggles ==
  []AtMostOneReportPerArtboard /\ [][ToggleStep]_vars

\* both artboards of a page hold their report group after an invocation
C10_Witness ==
  /\ cmd.name = "onCheckAllArtboards"
  /\ cmd.created = 2
  /\ Cardinality(ArtboardIndices(page)) = 2
  /\ \A k \in ArtboardIndices(page) :
       Cardinality(ReportGroupsIn(page.layers[k])) = 1

(***************************************************************************)
(* The single-sample variant.                                              *)
(***************************************************************************)
RatedLegacy == pc = "ratedLegacy"
TopLeft == <<rectangle.x, rectangle.y>>

\* The ratio of the layer's own colour over the top-left pixel
TopLeftRatio ==
  contrastRatioOver(PixelColor(bitmapImageRep, rectangle.x, rectangle.y),
                    ToRGBA(textLayer.color[1]), opacity)

\* C11: for every input the single-sample variant looks up only the
\* top-left corner and returns a status that is pass or fail: fail iff the
\* corner is inside the raster and its ratio is below the threshold, pass
\* otherwise, with the ratio 'NA' when the corner is outside the raster.
C11_LegacyReturnsPassOrFail ==
  RatedLegacy =>
    /\ rating.ret # <<>>
    /\ rating.lookups = <<TopLeft>>
    /\ rating.ret[1].status \in {"pass", "fail"}
    /\ rating.ret[1].status = "fail"
         <=> (InBounds(TopLeft) /\ TopLeftRatio < Threshold)
    /\ ~InBounds(TopLeft) => rating.ret[1].contrastRatio = "NA"

(***************************************************************************)
(* Results against the threshold.                                          *)
(***************************************************************************)
\* C14: every result of the four-corner rating agrees with the threshold
\* of its text: a pass has its ratio at or above it; a fail has its ratio
\* and the largest ratio seen below it; a mixed result has the smallest
\* ratio below it and the largest at or above it, so the two differ; and
\* the pass and fail counts add up to the number of sample points inside
\* the raster, at most four.
C14_ResultConsistentWithThreshold ==
  Rated =>
    /\ rating.ret.status = "pass" =>
         /\ rating.ret.contrastRatio = Num(rating.stats.minCR)
         /\ rating.stats.minCR >= Threshold
    /\ rating.ret.status = "fail" =>
         /\ rating.ret.contrastRatio = Num(rating.stats.minCR)
         /\ rating.stats.minCR < Threshold
         /\ rating.stats.maxCR < Threshold
    /\ rating.ret.status = "mixed" =>
         /\ rating.ret.contrastRatio = Num(rating.stats.minCR)
         /\ rating.stats.minCR < Threshold
         /\ Threshold <= rating.stats.maxCR
         /\ rating.stats.minCR < rating.stats.maxCR
    /\ Resolvable =>
         /\ rating.stats.pass + rating.stats.fail
              = Cardinality(InBoundsSamples)
         /\ rating.stats.pass + rating.stats.fail <= 4

\* all four corners inside the raster, some passing and some failing
C14_Witness ==
  /\ Rated
  /\ rating.ret.status = "mixed"
  /\ rating.stats.pass + rating.stats.fail = 4
  /\ rating.stats.pass > 0 /\ rating.stats.fail > 0

(***************************************************************************)
(* The order of the steps of createContrastReport.                         *)
(***************************************************************************)
StepsOf(op) == {i \in 1..Len(cmd.log) : cmd.log[i].op = op}

\* The steps of the call of createContrastReport that step i belongs to:
\* from its copy step to its removeCopy step
RunOf(i) ==
  LET first == CHOOSE j \in StepsOf("copy") :
                 j <= i /\ \A k \in StepsOf("copy") : k <= i => k <= j
      last == CHOOSE j \in StepsOf("removeCopy") :
                j >= i /\ \A k \in StepsOf("removeCopy") : k >= i => j <= k
  IN first..last

PaintedPaths(i) == {p.layer : p \in cmd.log[i].painted}

\* The image of step r shows no text layer, none of the layers rated in its
\* run, and nothing inside the run's own meta group
BackgroundOnly(r) ==
  /\ \A p \in cmd.log[r].painted : p.class # "MSTextLayer"
  /\ \A j \in RunOf(r) :
       /\ cmd.log[j].op = "rate" => cmd.log[j].layer \notin PaintedPaths(r)
       /\ (cmd.log[j].op = "addMeta" /\ cmd.log[j].layer # <<>>) =>
            \A q \in PaintedPaths(r) :
              IsPrefix(cmd.log[j].layer, q) => q = cmd.log[j].layer

RasterInOrder(r) ==
  \A j \in RunOf(r) :
    /\ cmd.log[j].op = "hide" => j < r
    /\ cmd.log[j].op \in {"rate", "overlay", "show", "image"} => j > r
    /\ cmd.log[j].op = "raster" => j = r
    /\ cmd.log[j].op = "rate" =>
         /\ cmd.log[j].painted = cmd.log[r].painted
         /\ \E k \in RunOf(r) :
              k < r /\ cmd.log[k].op = "hide"
                    /\ cmd.log[k].layer = cmd.log[j].layer

SingleRasterPerReport ==
  /\ \A i \in StepsOf("copy") : \E r \in StepsOf("raster") : r \in RunOf(i)
  /\ \A r \in StepsOf("raster") : RasterInOrder(r) /\ BackgroundOnly(r)

\* A step that made a report leaves the page's top-level layers as they
\* were: the copy is gone; in IMAGE mode nothing of the page has changed
CopyRemoved ==
  cmd'.log # <<>> =>
    /\ cmd'.log[Len(cmd'.log)].op = "removeCopy"
    /\ Len(page'.layers) = Len(page.layers)
    /\ \A k \in 1..Len(page.layers) :
         page'.layers[k].name = page.layers[k].name
    /\ cmd'.name = "onCheckCurrentArtboard" => page' = page

\* C12: in every call of createContrastReport the image used as background
\* is taken once, after every visible text layer of the copy is hidden and
\* before any overlay is drawn or any text layer shown again; every rating
\* reads that image, which shows neither the rated text nor an overlay of
\* the same run; and when the call returns the copy of the artboard is no
\* longer on the page, in IMAGE and in INLINE mode.
C12_SingleRasterOfHiddenText ==
  []SingleRasterPerReport /\ [][CopyRemoved]_vars

\* an image report of an artboard with two visible text layers and a group
C12_Witness ==
  /\ cmd.name = "onCheckCurrentArtboard" /\ cmd.opened
  /\ Cardinality(StepsOf("rate")) = 2
  /\ Cardinality(StepsOf("overlay")) = 2
  /\ \E r \in StepsOf("raster") : cmd.log[r].painted # {}

(***************************************************************************)
(* Reports and the layers of earlier reports.                              *)
(***************************************************************************)
\* The meta group that the run of step r added to the copy, if it did
OwnMetaGroup(r, path) ==
  \E j \in RunOf(r) : cmd.log[j].op = "addMeta" /\ cmd.log[j].layer = path

\* No text layer drawn by a report is rated
RatesOnlyTheDesign ==
  \A j \in StepsOf("rate") : cmd.log[j].origin = "user"

\* No layer drawn by an earlier report is in the image used as background
RastersOnlyTheDesign ==
  \A r \in StepsOf("raster") :
    \A p \in cmd.log[r].painted :
      p.origin = "report" => OwnMetaGroup(r, p.layer)

\* C13: whatever commands ran before, a report is computed from the user's
\* design alone: no overlay rectangle or label left in a report group by an
\* earlier command is rated as text or is part of the image that a later
\* command samples as background.
C13_ReportOnlyFromDesign == RatesOnlyTheDesign /\ RastersOnlyTheDesign

====
